---- MODULE Spec2Model ----
(***************************************************************************)
(* A model of the fuzzing engine of src/src/fuzzer/Fuzzer.ts: the main     *)
(* test loop of fuzz(), its stop conditions, the duplicate suppression,    *)
(* the oracles and the result categorization.                              *)
(*                                                                         *)
(* One run of fuzz() is modelled.  The options, the function under test    *)
(* (its number of arguments) and the list of pinned tests are chosen in    *)
(* Init; the pseudo-random generators and the function under test are the  *)
(* environment: a generated value and the outcome of a call are drawn      *)
(* nondeterministically from small sets.                                   *)
(***************************************************************************)
EXTENDS Integers, Sequences, FiniteSets, TLC

VARIABLES
    options,          \* env.options
    argCount,         \* env.function.getArgDefs().length
    argMax,           \* the argument's interval is 1..argMax
    pinnedTests,      \* the pinnedTests array passed to fuzz() (popped in place)
    pc,               \* position in fuzz(): "start", "check", "dedup", "done",
                      \* or the place where fuzz() raised
    result,           \* the FuzzTestResult of the current iteration
    results,          \* the FuzzTestResults aggregate
    savedCount,
    currentDupeCount,
    totalDupeCount,
    inputsGenerated,
    failureCount,
    allInputs,        \* the set of input hashes already processed
    clock,            \* new Date().getTime() - startTime
    calls,            \* history: the calls made to the function under test,
                      \* with what the function and the validators did
    pinned0,          \* history: the pinnedTests list as the caller passed it
    taken,            \* history: the index in pinned0 of the test whose input
                      \* the iteration processes, 0 for a generated input
    mod,              \* the loaded module: what the function under test and
                      \* the functions of env.validators may do when called
    arg,              \* the argument of a function studied on its own
    ret,              \* and the value it returned
    prng,             \* the state of the seeded generator: the number of
                      \* values drawn from it
    currentPanels,    \* FuzzPanel.currentPanels: per key the panel registered
    panels,           \* the FuzzPanel instances created so far
    _state,           \* of one panel: its state,
    _results,         \* the results it shows,
    _errorMessage,    \* the error message it shows,
    timers,           \* the run callbacks it has scheduled with setTimeout
    awaiting          \* and whether a callback waits for fuzz() to settle

vars == <<options, argCount, argMax, pinnedTests, pc, result, results, savedCount,
          currentDupeCount, totalDupeCount, inputsGenerated, failureCount,
          allInputs, clock, calls, pinned0, taken, mod, arg, ret, prng,
          currentPanels, panels, _state, _results, _errorMessage, timers,
          awaiting>>

\* The variables of the user interface, and those of fuzz() and of the
\* functions studied on their own.
panelsVars == <<currentPanels, panels>>
runVars == <<_state, _results, _errorMessage, timers, awaiting>>
uiVars == <<panelsVars, runVars>>
fuzzVars ==
    <<options, argCount, argMax, pinnedTests, pc, result, results, savedCount,
      currentDupeCount, totalDupeCount, inputsGenerated, failureCount,
      allInputs, clock, calls, pinned0, taken, mod, arg, ret, prng>>

----------------------------------------------------------------------------
(* Bounds of the model *)

MaxTests == 2
MaxDupes == 2
MaxFailures == 1
MaxPinned == 2
MaxValidators == 2
MaxWidth == 2
MaxPanels == 3
MaxTimers == 2

----------------------------------------------------------------------------
(* Values *)

\* An optional field of a JavaScript object: absent, or present with a value.
Absent == <<>>
Present(v) == <<v>>
IsPresent(o) == Len(o) = 1

\* A JavaScript value: its kind t ("number", "NaN", "Infinity", "-Infinity",
\* "null", "undefined", "string", "boolean", "array", "object"), the number n
\* of a number and the elements (or property values) of an array or object.
Scalar(t, n) == [t |-> t, n |-> n, items |-> <<>>]
GoodValue == Scalar("number", 1)
UndefinedValue == Scalar("undefined", 0)
Container(t, items) == [t |-> t, n |-> 0, items |-> items]

\* The values a call of the function under test may return: a finite number
\* and undefined.
OutputValues == {GoodValue, UndefinedValue}

\* An argument is an integer of the interval 1..argMax, and argMax is one
\* of these.
ArgMaxChoices == {1, 2, 3}

\* The argument lists of a function with n arguments, each argument drawn
\* from 1..hi.
InputSpace(n, hi) == [1..n -> 1..hi]

\* Time is counted in ticks since startTime, and a run sees the clock at 0
\* or at 1.  A suite timeout of 0 has expired at the first check; one of 1
\* expires with the first tick, and not at all in a run whose calls take no
\* tick.
ClockValues == {0, 1}
SuiteTimeouts == {0, 1}

\* JSON5.stringify(result.input): the text lists, per argument, its offset
\* and its value; name and offset are fixed by the position.
JSON5stringify(input) == [i \in 1..Len(input) |-> <<i - 1, input[i]>>]

----------------------------------------------------------------------------
(* Stop conditions *)

\* Mutation: the failure limit is tested before the test limit.
checkStopCondition_failuresFirst ==
    IF clock >= options.suiteTimeout THEN "MAXTIME"
    ELSE IF options.maxFailures # 0 /\ failureCount >= options.maxFailures
         THEN "MAXFAILURES"
    ELSE IF inputsGenerated - totalDupeCount >= options.maxTests
         THEN "MAXTESTS"
    ELSE IF currentDupeCount >= options.maxDupeInputs THEN "MAXDUPES"
    ELSE "undefined"

_checkStopCondition ==
    IF clock >= options.suiteTimeout THEN "MAXTIME"
    ELSE IF inputsGenerated - totalDupeCount >= options.maxTests
         THEN "MAXTESTS"
    ELSE IF options.maxFailures # 0 /\ failureCount >= options.maxFailures
         THEN "MAXFAILURES"
    ELSE IF currentDupeCount >= options.maxDupeInputs THEN "MAXDUPES"
    ELSE "undefined"

----------------------------------------------------------------------------
(* Oracles and categorization *)

\* Array.prototype.flat(): the elements, those of an element that is an
\* array spliced in its place (one level).
\* Mutation: the elements of an element that is an array are dropped.
RECURSIVE flat_dropNested(_)
flat_dropNested(items) ==
    IF items = <<>> THEN <<>>
    ELSE (IF Head(items).t = "array" THEN <<>>
          ELSE <<Head(items)>>) \o flat_dropNested(Tail(items))

RECURSIVE flat(_)
flat(items) ==
    IF items = <<>> THEN <<>>
    ELSE (IF Head(items).t = "array" THEN Head(items).items
          ELSE <<Head(items)>>) \o flat(Tail(items))

RECURSIVE implicitOracle(_)
implicitOracle(x) ==
    IF x.t = "array"
    THEN \A i \in 1..Len(flat(x.items)) : implicitOracle(flat(x.items)[i])
    ELSE IF x.t \in {"number", "NaN", "Infinity", "-Infinity"}
    THEN x.t \notin {"NaN", "Infinity", "-Infinity"}
    ELSE IF x.t \in {"null", "undefined"} THEN FALSE
    ELSE IF x.t = "object"
    THEN \A i \in 1..Len(x.items) : implicitOracle(x.items[i])
    ELSE TRUE

\* Mutation: a timeout is not told from a bad value.
getBadValueType_noTimeout(r) ==
    IF r.exception THEN "exception" ELSE "badValue"

getBadValueType(r) ==
    IF r.exception THEN "exception"
    ELSE IF r.timeout THEN "timeout"
    ELSE "badValue"

categorizeResult(r) ==
    IF r.validatorException THEN "failure"
    ELSE LET implicit == r.passedImplicit
             human == r.passedHuman
             property == r.passedValidator
         IN  IF human = Present(TRUE)
             THEN IF property = Present(FALSE) THEN "disagree" ELSE "ok"
             ELSE IF human = Present(FALSE)
             THEN IF property = Present(TRUE) THEN "disagree"
                  ELSE getBadValueType(r)
             ELSE IF property = Present(TRUE) THEN "ok"
             ELSE IF property = Present(FALSE) THEN "badValue"
             ELSE IF implicit THEN "ok"
             ELSE getBadValueType(r)

----------------------------------------------------------------------------
(* Calls through functionTimeout *)

\* What a throw statement raised: an object (an Error, say) with or without
\* a code property, or a value that is no object (a string, a number, null,
\* undefined).
Thrown(isObject, code) == [isObject |-> isObject, code |-> code]
NoError == Thrown(FALSE, Absent)
TimeoutCode == "ERR_SCRIPT_EXECUTION_TIMEOUT"

\* What a call may do: return a value, throw, or run beyond any time limit;
\* and it may first write to the arguments it was passed.
Returned(v) ==
    [kind |-> "returned", value |-> v, error |-> NoError, mutates |-> FALSE]
Threw(e) ==
    [kind |-> "threw", value |-> UndefinedValue, error |-> e,
     mutates |-> FALSE]
Overran ==
    [kind |-> "timeout", value |-> UndefinedValue, error |-> NoError,
     mutates |-> FALSE]
Mutating(behaviour) == [behaviour EXCEPT !.mutates = TRUE]

\* The wrapper functionTimeout builds, called on a function that behaves as
\* given: script.runInNewContext refuses a timeout that is not positive
\* with a RangeError, it ends a call that overruns the timeout by throwing
\* an Error whose code is ERR_SCRIPT_EXECUTION_TIMEOUT, and it passes on
\* what the function returns or throws.
functionTimeout(behaviour, timeout) ==
    IF timeout <= 0 THEN Threw(Thrown(TRUE, Present("ERR_OUT_OF_RANGE")))
    ELSE IF behaviour.kind = "timeout"
    THEN Threw(Thrown(TRUE, Present(TimeoutCode)))
    ELSE behaviour

\* isTimeoutError(error): the in operator raises a TypeError on a value
\* that is no object.
isTimeoutError(error) ==
    IF ~error.isObject THEN "TypeError"
    ELSE IF IsPresent(error.code) /\ error.code = Present(TimeoutCode)
    THEN "true"
    ELSE "false"

----------------------------------------------------------------------------
(* The run *)

\* Mutation: a result starts with the implicit oracle failed.
InitialResult_failedImplicit ==
    [pinned |-> FALSE, input |-> <<>>, output |-> <<>>, exception |-> FALSE,
     validatorException |-> FALSE, timeout |-> FALSE, passedImplicit |-> FALSE,
     passedHuman |-> Absent, passedValidators |-> Absent,
     passedValidator |-> Absent, expectedOutput |-> Absent, category |-> "ok",
     elapsedTime |-> 0]

InitialResult ==
    [pinned |-> FALSE, input |-> <<>>, output |-> <<>>, exception |-> FALSE,
     validatorException |-> FALSE, timeout |-> FALSE, passedImplicit |-> TRUE,
     passedHuman |-> Absent, passedValidators |-> Absent,
     passedValidator |-> Absent, expectedOutput |-> Absent, category |-> "ok",
     elapsedTime |-> 0]

OptionSet ==
    [maxTests : 0..MaxTests, maxDupeInputs : 0..MaxDupes,
     maxFailures : 0..MaxFailures, suiteTimeout : SuiteTimeouts,
     fnTimeout : {1}, onlyFailures : BOOLEAN, useImplicit : BOOLEAN,
     useHuman : {TRUE}, useProperty : {FALSE}, outputFile : {FALSE},
     seed : {Absent}]

isOptionValid(o) ==
    o.maxTests >= 0 /\ o.maxDupeInputs >= 0 /\ o.maxFailures >= 0

\* The saved tests a caller may pass: inputs of the function's shape, with
\* values of the argument's interval.
PinnedFlags == {TRUE}
PinnedTestSet(n, hi) ==
    [input : InputSpace(n, hi), pinned : PinnedFlags,
     expectedOutput : {Absent}]

PinnedLists(n, hi) ==
    UNION {[1..k -> PinnedTestSet(n, hi)] : k \in 0..MaxPinned}

\* The outcomes of a call of the function under test.
Outcomes ==
    {Returned(v) : v \in OutputValues}
      \cup {Threw(Thrown(TRUE, Absent)), Overran}

\* The functions a panel may be opened for, each by the key of
\* getFnRefKey(): the text of its module and name.
FnRefKeys == {"a.ts/f", "a.ts/g", "b.ts/f"}

\* No panel has been created.
NoPanel ==
    /\ currentPanels = [key \in FnRefKeys |-> 0]
    /\ panels = <<>>

\* A panel as constructed: nothing has been fuzzed yet.
NoRun ==
    /\ _state = "init"
    /\ _results = Absent
    /\ _errorMessage = Absent
    /\ timers = 0
    /\ awaiting = FALSE

\* The locals of fuzz() before the loop.
EnteredLoopState ==
    /\ result = InitialResult
    /\ results = [stopReason |-> "CRASH", inputsGenerated |-> 0,
                  dupesGenerated |-> 0, inputsSaved |-> 0, results |-> <<>>]
    /\ savedCount = 0
    /\ currentDupeCount = 0
    /\ totalDupeCount = 0
    /\ inputsGenerated = 0
    /\ failureCount = 0
    /\ allInputs = {}
    /\ clock = 0
    /\ calls = <<>>
    /\ taken = 0
    /\ prng = 0

\* fuzz() is entered: nothing is counted, no function is studied on its own.
Entered ==
    /\ pinned0 = pinnedTests
    /\ pc = "start"
    /\ arg = <<>>
    /\ ret = <<>>
    /\ EnteredLoopState
    /\ NoPanel
    /\ NoRun

\* The runs whose loop is explored: valid options, the implicit oracle on,
\* no validators, a function that returns, throws an Error or overruns.
Init ==
    /\ options \in {o \in OptionSet : isOptionValid(o) /\ o.useImplicit}
    /\ argCount \in 0..1
    /\ argMax \in IF argCount = 0 THEN {1} ELSE ArgMaxChoices
    /\ pinnedTests \in PinnedLists(argCount, argMax)
    /\ mod = [function |-> Outcomes, validators |-> <<>>, isVoid |-> FALSE]
    /\ Entered

\* The options are checked before anything else: fuzz() raises on invalid
\* options and goes on to the loop otherwise.
EnterFuzz ==
    /\ pc = "start"
    /\ pc' = IF isOptionValid(options) THEN "check" ELSE "raised:options"
    /\ UNCHANGED <<options, argCount, argMax, pinnedTests, result, results,
                   savedCount, currentDupeCount, totalDupeCount,
                   inputsGenerated, failureCount, allInputs, clock, calls,
                   pinned0, taken, mod, arg, ret, prng, uiVars>>

\* fs.writeFileSync is called if an output file is requested, and it either
\* writes the file or throws (no such directory, no permission, disk full).
WriteOutcomes ==
    IF options.outputFile THEN {"written", "throws"} ELSE {"not called"}

\* Where fuzz() ends after the loop: it returns the results, or raises what
\* the write threw.
Persist(writeFileSync) ==
    IF writeFileSync = "throws" THEN "raised:write" ELSE "done"

\* Mutation: the loop is left without the reason being stored.
StopFuzzing_noReason ==
    /\ pc = "check"
    /\ _checkStopCondition # "undefined"
    /\ results' = [results EXCEPT !.stopReason = results.stopReason,
                                  !.inputsGenerated = inputsGenerated,
                                  !.dupesGenerated = totalDupeCount,
                                  !.inputsSaved = savedCount]
    /\ \E writeFileSync \in WriteOutcomes : pc' = Persist(writeFileSync)
    /\ UNCHANGED <<options, argCount, argMax, pinnedTests, result, savedCount,
                   currentDupeCount, totalDupeCount, inputsGenerated,
                   failureCount, allInputs, clock, calls, pinned0, taken,
                   mod, arg, ret, prng, uiVars>>

\* The loop-top check finds a stop condition: finalize the aggregate, leave
\* the loop, persist and return.
StopFuzzing ==
    /\ pc = "check"
    /\ _checkStopCondition # "undefined"
    /\ results' = [results EXCEPT !.stopReason = _checkStopCondition,
                                  !.inputsGenerated = inputsGenerated,
                                  !.dupesGenerated = totalDupeCount,
                                  !.inputsSaved = savedCount]
    /\ \E writeFileSync \in WriteOutcomes : pc' = Persist(writeFileSync)
    /\ UNCHANGED <<options, argCount, argMax, pinnedTests, result, savedCount,
                   currentDupeCount, totalDupeCount, inputsGenerated,
                   failureCount, allInputs, clock, calls, pinned0, taken,
                   mod, arg, ret, prng, uiVars>>

\* Mutation: a saved test is taken without being counted.
TakePinned_uncounted ==
    /\ pc = "check"
    /\ _checkStopCondition = "undefined"
    /\ pinnedTests # <<>>
    /\ LET pinnedTest == pinnedTests[Len(pinnedTests)]
       IN  /\ pinnedTests' = SubSeq(pinnedTests, 1, Len(pinnedTests) - 1)
           /\ savedCount' = savedCount
           /\ result' = [InitialResult EXCEPT
                            !.input = pinnedTest.input,
                            !.pinned = pinnedTest.pinned,
                            !.expectedOutput = pinnedTest.expectedOutput]
    /\ taken' = Len(pinnedTests)
    /\ pc' = "dedup"
    /\ UNCHANGED <<options, argCount, argMax, results, currentDupeCount,
                   totalDupeCount, inputsGenerated, failureCount, allInputs,
                   clock, calls, pinned0,
                   mod, arg, ret, prng, uiVars>>

\* The loop-top check finds none and pinnedTests.pop() returns a test: the
\* iteration starts from the initial result and takes its input from the test.
TakePinned ==
    /\ pc = "check"
    /\ _checkStopCondition = "undefined"
    /\ pinnedTests # <<>>
    /\ LET pinnedTest == pinnedTests[Len(pinnedTests)]
       IN  /\ pinnedTests' = SubSeq(pinnedTests, 1, Len(pinnedTests) - 1)
           /\ savedCount' = savedCount + 1
           /\ result' = [InitialResult EXCEPT
                            !.input = pinnedTest.input,
                            !.pinned = pinnedTest.pinned,
                            !.expectedOutput = pinnedTest.expectedOutput]
    /\ taken' = Len(pinnedTests)
    /\ pc' = "dedup"
    /\ UNCHANGED <<options, argCount, argMax, results, currentDupeCount,
                   totalDupeCount, inputsGenerated, failureCount, allInputs,
                   clock, calls, pinned0,
                   mod, arg, ret, prng, uiVars>>

\* seedrandom(seed): the number the generator yields at a position of its
\* stream depends on the seed and the position alone.
seedrandom(seed, position) == (seed * position + seed) % 4

\* The generator of an argument of the interval 1..hi: it draws one number
\* and maps it into the interval.
gen(drawn, hi) == (drawn % hi) + 1

\* Mutation: the calls of the function under test draw from the stream
\* of the generators.
Generated_sharedStream(state) ==
    IF options.seed = Absent THEN InputSpace(argCount, argMax)
    ELSE {[i \in 1..argCount |->
              gen(seedrandom(options.seed[1], state + Len(calls) + i),
                  argMax)]}

\* The inputs the generators may build from a state of the generator, one
\* draw per argument in the order of the arguments: the input the stream
\* fixes, or any input if no seed is given (seedrandom then seeds itself
\* from entropy).
Generated(state) ==
    IF options.seed = Absent THEN InputSpace(argCount, argMax)
    ELSE {[i \in 1..argCount |->
              gen(seedrandom(options.seed[1], state + i), argMax)]}

\* Mutation: the result of the iteration before is used again.
GenerateInput_staleResult ==
    /\ pc = "check"
    /\ _checkStopCondition = "undefined"
    /\ pinnedTests = <<>>
    /\ \E input \in Generated(prng) :
          result' = [result EXCEPT !.input = input]
    /\ prng' = prng + argCount
    /\ inputsGenerated' = inputsGenerated + 1
    /\ taken' = 0
    /\ pc' = "dedup"
    /\ UNCHANGED <<options, argCount, argMax, pinnedTests, results, savedCount,
                   currentDupeCount, totalDupeCount, failureCount, allInputs,
                   clock, calls, pinned0,
                   mod, arg, ret, uiVars>>

\* Mutation: an input is generated whether or not saved tests are left.
GenerateInput_anytime ==
    /\ pc = "check"
    /\ _checkStopCondition = "undefined"
    /\ \E input \in Generated(prng) :
          result' = [InitialResult EXCEPT !.input = input]
    /\ prng' = prng + argCount
    /\ inputsGenerated' = inputsGenerated + 1
    /\ taken' = 0
    /\ pc' = "dedup"
    /\ UNCHANGED <<options, argCount, argMax, pinnedTests, results, savedCount,
                   currentDupeCount, totalDupeCount, failureCount, allInputs,
                   clock, calls, pinned0,
                   mod, arg, ret, uiVars>>

\* The loop-top check finds none and the pool is empty: every argument's
\* generator draws a value.
GenerateInput ==
    /\ pc = "check"
    /\ _checkStopCondition = "undefined"
    /\ pinnedTests = <<>>
    /\ \E input \in Generated(prng) :
          result' = [InitialResult EXCEPT !.input = input]
    /\ prng' = prng + argCount
    /\ inputsGenerated' = inputsGenerated + 1
    /\ taken' = 0
    /\ pc' = "dedup"
    /\ UNCHANGED <<options, argCount, argMax, pinnedTests, results, savedCount,
                   currentDupeCount, totalDupeCount, failureCount, allInputs,
                   clock, calls, pinned0,
                   mod, arg, ret, uiVars>>

\* Mutation: no input is taken for a duplicate.
IsDuplicate_never(inputHash) == FALSE

\* Whether the input with this hash was processed before in this run.
IsDuplicate(inputHash) == inputHash \in allInputs

\* Mutation: the hash is recorded for a function without arguments too.
RecordInput_always(inputHash) == allInputs \cup {inputHash}

\* Mutation: no hash is ever recorded.
RecordInput_never(inputHash) == allInputs

\* allInputs after a new input: its hash is added if the function accepts
\* inputs.
RecordInput(inputHash) ==
    IF argCount # 0 THEN allInputs \cup {inputHash} ELSE allInputs

\* Mutation: a duplicate is skipped without being counted.
SkipDuplicate_uncounted ==
    /\ pc = "dedup"
    /\ IsDuplicate(JSON5stringify(result.input))
    /\ pc' = "check"
    /\ UNCHANGED <<options, argCount, argMax, pinnedTests, result, results,
                   savedCount, currentDupeCount, totalDupeCount,
                   inputsGenerated, failureCount, allInputs, clock, calls,
                   pinned0, taken,
                   mod, arg, ret, prng, uiVars>>

\* Mutation: a duplicate is counted in the total only.
SkipDuplicate_totalOnly ==
    /\ pc = "dedup"
    /\ IsDuplicate(JSON5stringify(result.input))
    /\ totalDupeCount' = totalDupeCount + 1
    /\ pc' = "check"
    /\ UNCHANGED <<options, argCount, argMax, pinnedTests, result, results,
                   savedCount, currentDupeCount, inputsGenerated,
                   failureCount, allInputs, clock, calls, pinned0, taken,
                   mod, arg, ret, prng, uiVars>>

\* The input was processed before: count the duplicate and skip the test.
SkipDuplicate ==
    /\ pc = "dedup"
    /\ IsDuplicate(JSON5stringify(result.input))
    /\ currentDupeCount' = currentDupeCount + 1
    /\ totalDupeCount' = totalDupeCount + 1
    /\ pc' = "check"
    /\ UNCHANGED <<options, argCount, argMax, pinnedTests, result, results,
                   savedCount, inputsGenerated, failureCount, allInputs,
                   clock, calls, pinned0, taken,
                   mod, arg, ret, prng, uiVars>>

\* The values a saved test may carry as its expected output: a list of
\* output elements, each a value with the optional marks isTimeout and
\* isException (name "0" and offset 0 throughout).
IoElement(v, isTimeout, isException) ==
    [value |-> v, isTimeout |-> isTimeout, isException |-> isException]

\* The element fuzz() pushes on result.output.
OutputElement(v) == IoElement(v, Absent, Absent)

\* The JSON5 text of a value other than undefined: an element of an array
\* that is undefined is written null, and a property of an object whose
\* value is undefined is left out (the properties of an object are told by
\* their position).
RECURSIVE JSON5text(_)
JSON5text(v) ==
    IF v.t = "array"
    THEN [t |-> "array", n |-> 0,
          items |-> [i \in 1..Len(v.items) |->
                        IF v.items[i].t = "undefined"
                        THEN Present(Scalar("null", 0))
                        ELSE Present(JSON5text(v.items[i]))]]
    ELSE IF v.t = "object"
    THEN [t |-> "object", n |-> 0,
          items |-> [i \in 1..Len(v.items) |->
                        IF v.items[i].t = "undefined" THEN Absent
                        ELSE Present(JSON5text(v.items[i]))]]
    ELSE v

\* JSON5.parse of the text of a value: a property that the text leaves out
\* reads undefined.
RECURSIVE JSON5parseValue(_)
JSON5parseValue(text) ==
    IF text.t \in {"array", "object"}
    THEN [t |-> text.t, n |-> 0,
          items |-> [i \in 1..Len(text.items) |->
                        IF text.items[i] = Absent THEN UndefinedValue
                        ELSE JSON5parseValue(text.items[i][1])]]
    ELSE text

\* JSON5.stringify of a list of output elements: a property whose value is
\* undefined is left out of the text.
JSON5stringifyOutput(elements) ==
    [i \in 1..Len(elements) |->
        [value |-> IF elements[i].value.t = "undefined" THEN Absent
                   ELSE Present(JSON5text(elements[i].value)),
         isTimeout |-> elements[i].isTimeout,
         isException |-> elements[i].isException]]

actualEqualsExpectedOutput(r, expectedOutput) ==
    IF r.timeout
    THEN Len(expectedOutput) > 0 /\ expectedOutput[1].isTimeout = Present(TRUE)
    ELSE IF r.exception
    THEN Len(expectedOutput) > 0
           /\ expectedOutput[1].isException = Present(TRUE)
    ELSE JSON5stringifyOutput([i \in 1..Len(r.output) |->
                                  OutputElement(r.output[i])])
           = JSON5stringifyOutput(expectedOutput)

\* Mutation: the element's name is undefined.
ElementObject_unnamed(v) ==
    [t |-> "object", n |-> 0,
     items |-> <<UndefinedValue, Scalar("number", 0), v>>]

\* The output element as implicitOracle receives it: an object with the
\* properties name, offset and value.
ElementObject(v) ==
    [t |-> "object", n |-> 0,
     items |-> <<Scalar("string", 0), Scalar("number", 0), v>>]

\* Whether the catch block of the call raises: isTimeoutError does on a
\* thrown value that is no object.
CallRaises(wrapped) ==
    wrapped.kind = "threw" /\ isTimeoutError(wrapped.error) = "TypeError"

\* Mutation: the output element is pushed whatever the call does.
Called_outputAlways(r, wrapped) ==
    [r EXCEPT !.output = <<wrapped.value>>,
              !.timeout = (wrapped.kind = "threw"
                             /\ isTimeoutError(wrapped.error) = "true"),
              !.exception = (wrapped.kind = "threw"
                               /\ isTimeoutError(wrapped.error) = "false")]

\* The result after the call of the wrapper in its try block and the catch
\* block (which does not raise).
Called(r, wrapped) ==
    [r EXCEPT !.output = IF wrapped.kind = "returned"
                         THEN <<wrapped.value>> ELSE <<>>,
              !.timeout = (wrapped.kind = "threw"
                             /\ isTimeoutError(wrapped.error) = "true"),
              !.exception = (wrapped.kind = "threw"
                               /\ isTimeoutError(wrapped.error) = "false")]

\* Mutation: a void function is held to the rule of the others.
passedImplicit_voidAsValue(called) ==
    IF called.exception \/ called.timeout THEN FALSE
    ELSE \A i \in 1..Len(called.output) :
             implicitOracle(ElementObject(called.output[i]))

\* The verdict of the implicit oracle on the result of a call: an exception
\* or a timeout fails; a void function passes if it returned undefined;
\* any other passes if implicitOracle accepts every output element.
passedImplicit(called) ==
    IF called.exception \/ called.timeout THEN FALSE
    ELSE IF mod.isVoid
    THEN \A i \in 1..Len(called.output) : called.output[i].t = "undefined"
    ELSE \A i \in 1..Len(called.output) :
             implicitOracle(ElementObject(called.output[i]))

\* The result after the call, the implicit oracle and the human oracle.
Judged(r, wrapped) ==
    LET called == Called(r, wrapped)
        withImplicit ==
            IF options.useImplicit
            THEN [called EXCEPT !.passedImplicit = passedImplicit(called)]
            ELSE called
    IN  IF options.useHuman /\ IsPresent(withImplicit.expectedOutput)
        THEN [withImplicit EXCEPT !.passedHuman =
                 Present(actualEqualsExpectedOutput(
                             withImplicit, withImplicit.expectedOutput[1]))]
        ELSE withImplicit

\* JSON5.parse(JSON5.stringify(result)), the copy of the result that a
\* validator's wrapper is called on: of the fields a validator is shown,
\* the output values are the ones the text does not keep as they are.
JSON5copy(r) ==
    [r EXCEPT !.output =
        [i \in 1..Len(r.output) |->
            IF r.output[i].t = "undefined" THEN UndefinedValue
            ELSE JSON5parseValue(JSON5text(r.output[i]))]]

\* The string "timeout or exception".
TimeoutOrException == Scalar("string", 1)

\* validatorIn, what the wrapper hands the validator: the input values, the
\* output value or the string above if there is none, and the flags.
validatorIn(copy) ==
    [in |-> copy.input,
     out |-> IF Len(copy.output) = 0 THEN TimeoutOrException
             ELSE copy.output[1],
     exception |-> copy.exception,
     timeout |-> copy.timeout]

\* What the validators called in an iteration were handed, one after the
\* other: the loop changes none of the fields that validatorIn is built
\* from.
ValidatorInputs(r, called) == [i \in 1..called |-> validatorIn(JSON5copy(r))]

\* What a validator may do when called: return true or false, throw an
\* Error, or run beyond any time limit.
ValidatorOutcomes ==
    {Returned(Scalar("boolean", 1)), Returned(Scalar("boolean", 0)),
     Threw(Thrown(TRUE, Absent)), Overran}

\* Mutation: a validator that returns clears the exception flag.
validatorFn_freshFlag(copy, behaviour) ==
    IF behaviour.kind = "returned"
    THEN Returned([copy EXCEPT
                      !.passedValidator = Present(behaviour.value.n = 1),
                      !.passedValidators = Present(<<>>),
                      !.validatorException = FALSE])
    ELSE IF behaviour.kind = "threw"
    THEN Returned([copy EXCEPT !.validatorException = TRUE])
    ELSE Overran

\* The function handed to functionTimeout for a validator, called on a copy
\* of the result (the copy keeps the fields read here): it returns the copy
\* with the validator's verdict, or with the exception flag set if the
\* validator throws, and it overruns if the validator does.
validatorFn(copy, behaviour) ==
    IF behaviour.kind = "returned"
    THEN Returned([copy EXCEPT
                      !.passedValidator = Present(behaviour.value.n = 1),
                      !.passedValidators = Present(<<>>)])
    ELSE IF behaviour.kind = "threw"
    THEN Returned([copy EXCEPT !.validatorException = TRUE])
    ELSE Overran

\* Mutation: the verdict of a validator is stored once only.
StoreValidatorResult_set(r, validatorResult) ==
    [r EXCEPT
        !.passedValidators =
            Present(IF \E i \in 1..Len(r.passedValidators[1]) :
                          r.passedValidators[1][i]
                            = validatorResult.passedValidator
                    THEN r.passedValidators[1]
                    ELSE Append(r.passedValidators[1],
                                validatorResult.passedValidator)),
        !.validatorException = validatorResult.validatorException]

\* What the loop keeps of the result a validator's wrapper returned.
StoreValidatorResult(r, validatorResult) ==
    [r EXCEPT
        !.passedValidators =
            Present(Append(r.passedValidators[1],
                           validatorResult.passedValidator)),
        !.validatorException = validatorResult.validatorException]

\* The loop over env.validators from the i-th on: each validator is called
\* through functionTimeout, outside any try block, so what the wrapper
\* throws leaves fuzz().
RECURSIVE ValidatorLoop(_, _, _)
ValidatorLoop(r, behaviours, i) ==
    IF i > Len(behaviours)
    THEN [raised |-> FALSE, result |-> r, called |-> i - 1]
    ELSE LET categorized == [r EXCEPT !.category = categorizeResult(r)]
             wrapped == functionTimeout(
                            validatorFn(categorized, behaviours[i]),
                            options.fnTimeout)
         IN  IF wrapped.kind = "threw"
             THEN [raised |-> TRUE, result |-> categorized, called |-> i]
             ELSE ValidatorLoop(
                      StoreValidatorResult(categorized, wrapped.value),
                      behaviours, i + 1)

\* passedValidator after the loop: true && v1 && ... && vn, where && yields
\* its left operand unless that is true.
RECURSIVE AllPassed(_, _)
AllPassed(acc, passedValidators) ==
    IF passedValidators = <<>> THEN acc
    ELSE AllPassed(IF acc = Present(TRUE) THEN Head(passedValidators)
                   ELSE acc,
                   Tail(passedValidators))

\* The property oracle: it runs if there are validators and useProperty is
\* set.
Validated(r, behaviours) ==
    IF Len(mod.validators) # 0 /\ options.useProperty
    THEN LET looped == ValidatorLoop(
                           [r EXCEPT !.passedValidators = Present(<<>>)],
                           behaviours, 1)
         IN  IF looped.raised THEN looped
             ELSE [looped EXCEPT !.result =
                      [looped.result EXCEPT !.passedValidator =
                          AllPassed(Present(TRUE),
                                    looped.result.passedValidators[1])]]
    ELSE [raised |-> FALSE, result |-> r, called |-> 0]

\* What the validators of the module may do in one iteration, one
\* behaviour per validator, if the property oracle runs.
ValidatorRuns ==
    IF Len(mod.validators) # 0 /\ options.useProperty
    THEN {bs \in [1..Len(mod.validators) -> ValidatorOutcomes] :
             \A i \in 1..Len(mod.validators) : bs[i] \in mod.validators[i]}
    ELSE {<<>>}

\* JSON5.parse of the text of an input: the list of the values.
JSON5parse(text) == [i \in 1..Len(text) |-> text[i][2]]

\* Mutation: the function is passed result.input itself.
Argument_byReference(input) == [object |-> "input", value |-> input]

\* What the wrapper is called on: a new object, parsed from the text of
\* result.input.
Argument(input) ==
    [object |-> "copy", value |-> JSON5parse(JSON5stringify(input))]

\* result.input after the call: a function that writes to its arguments
\* overwrites the values of the object it was passed.
Written(input, argument, behaviour) ==
    IF behaviour.mutates /\ argument.object = "input"
    THEN [i \in 1..Len(input) |-> 0]
    ELSE input

\* performance.now() when the clock of the run shows c ticks: the time
\* since the time origin of the process, which lies TimeOrigin ticks before
\* startTime.
TimeOrigin == 2
performanceNow(c) == TimeOrigin + c

\* result.elapsedTime after the try block and the catch block of a call
\* that started at the time start and ended at the time end: the try block
\* stores start before the call and the difference after it; on a timeout
\* the catch block subtracts what is stored from the time, and on another
\* exception it leaves it.
Timed(r, wrapped, start, end) ==
    [r EXCEPT !.elapsedTime =
        IF wrapped.kind = "returned" THEN end - start
        ELSE IF isTimeoutError(wrapped.error) = "true" THEN end - start
        ELSE start]

\* Mutation: every test counts as a failure.
CountFailure_everyTest(r) == failureCount + 1

\* The failure counter after a test: incremented if the test had a failing
\* result.
CountFailure(r) ==
    IF r.category # "ok" THEN failureCount + 1 ELSE failureCount

\* Mutation: every result is stored.
StoreResult_always(r) ==
    [results EXCEPT !.results = Append(results.results, r)]

\* The results after a test: the result is stored unless only failures are
\* wanted and the test passed.
StoreResult(r) ==
    IF ~options.onlyFailures \/ r.category # "ok"
    THEN [results EXCEPT !.results = Append(results.results, r)]
    ELSE results

\* The input is new: record it, call the function, judge and store the
\* result; fuzz() raises if the catch block or a validator's wrapper does.
RunTest ==
    /\ pc = "dedup"
    /\ ~IsDuplicate(JSON5stringify(result.input))
    /\ currentDupeCount' = 0
    /\ allInputs' = RecordInput(JSON5stringify(result.input))
    /\ \E behaviour \in mod.function, behaviours \in ValidatorRuns,
          d \in {e \in 0..1 : clock + e \in ClockValues} :
       \E wrapped \in {functionTimeout(behaviour, options.fnTimeout)} :
       \E called \in {Timed([result EXCEPT
                                !.input = Written(result.input,
                                                  Argument(result.input),
                                                  behaviour)],
                            wrapped, performanceNow(clock),
                            performanceNow(clock + d))} :
       \E validated \in {Validated(Judged(called, wrapped), behaviours)} :
       \E r \in {[validated.result EXCEPT
                     !.category = categorizeResult(validated.result)]} :
              /\ clock' = clock + d
              /\ calls' = Append(calls,
                     [input |-> result.input, taken |-> taken,
                      behaviour |-> behaviour,
                      validators |->
                          IF CallRaises(wrapped) THEN <<>>
                          ELSE SubSeq(behaviours, 1, validated.called),
                      validatorIn |->
                          IF CallRaises(wrapped) THEN <<>>
                          ELSE ValidatorInputs(Judged(called, wrapped),
                                               validated.called)])
              /\ IF CallRaises(wrapped)
                 THEN /\ pc' = "raised:catch"
                      /\ UNCHANGED <<result, failureCount, results>>
                 ELSE IF validated.raised
                 THEN /\ pc' = "raised:validator"
                      /\ UNCHANGED <<result, failureCount, results>>
                 ELSE /\ pc' = "check"
                      /\ result' = r
                      /\ failureCount' = CountFailure(r)
                      /\ results' = StoreResult(r)
    /\ UNCHANGED <<options, argCount, argMax, pinnedTests, savedCount,
                   totalDupeCount, inputsGenerated, pinned0, taken,
                   mod, arg, ret, prng, uiVars>>

Next ==
    \/ EnterFuzz
    \/ StopFuzzing
    \/ TakePinned
    \/ GenerateInput
    \/ SkipDuplicate
    \/ RunTest

Spec == Init /\ [][Next]_vars

\* fuzz() is one sequential loop: a step that can be taken is taken.
FairSpec == Spec /\ WF_vars(Next)

----------------------------------------------------------------------------
(* Runs with every oracle *)

\* A function under test that may also throw an object that carries the
\* code of a script timeout, throw a value that is no object, write to its
\* arguments before it returns or throws, or return null or an array that
\* holds undefined.
AnyOutcomes ==
    Outcomes \cup {Threw(Thrown(TRUE, Present(TimeoutCode))),
                   Threw(Thrown(FALSE, Absent)),
                   Mutating(Returned(GoodValue)),
                   Mutating(Threw(Thrown(TRUE, Absent))),
                   Returned(Scalar("null", 0)),
                   Returned(Container("array", <<UndefinedValue>>))}

\* The expected outputs a saved test may carry: none, an empty list, a
\* value, the timeout mark, the exception mark.
ExpectedOutputs ==
    {Absent, Present(<<>>), Present(<<OutputElement(GoodValue)>>),
     Present(<<IoElement(UndefinedValue, Present(TRUE), Absent)>>),
     Present(<<IoElement(UndefinedValue, Absent, Present(TRUE))>>)}

\* Short runs (one test, saved or generated, and a duplicate of a saved one) with the oracles switched on and off, up to MaxValidators
\* validators and an output file requested or not.
OracleInit ==
    /\ options \in [maxTests : {1}, maxDupeInputs : {1}, maxFailures : {0},
                    suiteTimeout : {1}, fnTimeout : {1},
                    onlyFailures : {FALSE}, useImplicit : BOOLEAN,
                    useHuman : BOOLEAN, useProperty : BOOLEAN,
                    outputFile : BOOLEAN, seed : {Absent}]
    /\ argCount = 1
    /\ argMax = 1
    /\ pinnedTests \in
          UNION {[1..k -> [input : InputSpace(argCount, argMax),
                           pinned : PinnedFlags,
                           expectedOutput : ExpectedOutputs]] : k \in 0..1}
    /\ mod \in {[function |-> AnyOutcomes,
                 validators |-> [i \in 1..n |-> ValidatorOutcomes],
                 isVoid |-> isVoid] :
                   n \in 0..MaxValidators, isVoid \in BOOLEAN}
    /\ Entered

OracleSpec == OracleInit /\ [][Next]_vars

----------------------------------------------------------------------------
(* Runs with expected outputs *)

\* Runs of a function of one argument of the interval 1..2 with up to one
\* saved test, pinned or not, with or without an expected output, and a
\* validator that returns true or false; the human and the property oracle
\* are switched on and off.
HumanInit ==
    /\ options \in [maxTests : 1..MaxTests, maxDupeInputs : {MaxDupes},
                    maxFailures : {0}, suiteTimeout : {1}, fnTimeout : {1},
                    onlyFailures : {FALSE}, useImplicit : {TRUE},
                    useHuman : BOOLEAN, useProperty : BOOLEAN,
                    outputFile : {FALSE}, seed : {Absent}]
    /\ argCount = 1
    /\ argMax = 2
    /\ pinnedTests \in
          UNION {[1..k -> [input : InputSpace(argCount, argMax),
                           pinned : BOOLEAN,
                           expectedOutput : ExpectedOutputs]] : k \in 0..1}
    /\ mod = [function |-> Outcomes,
              validators |-> <<{Returned(Scalar("boolean", 1)),
                                Returned(Scalar("boolean", 0))}>>,
              isVoid |-> FALSE]
    /\ Entered

HumanSpec == HumanInit /\ [][Next]_vars

----------------------------------------------------------------------------
(* Runs on a narrow interval *)

\* Runs of a function of one argument of the interval 1..2, otherwise as
\* the runs of Init.
NarrowInit ==
    /\ options \in {o \in OptionSet : isOptionValid(o) /\ o.useImplicit}
    /\ argCount = 1
    /\ argMax = 2
    /\ pinnedTests \in PinnedLists(argCount, argMax)
    /\ mod = [function |-> Outcomes, validators |-> <<>>, isVoid |-> FALSE]
    /\ Entered

NarrowSpec == NarrowInit /\ [][Next]_vars

----------------------------------------------------------------------------
(* Runs of a function that behaves *)

\* A function under test that always returns, and returns a number, a
\* string or an array of numbers.
GoodOutcomes ==
    {Returned(GoodValue), Returned(Scalar("string", 0)),
     Returned(Container("array", <<GoodValue, GoodValue>>))}

\* Runs of such a function of one argument, not void, under the implicit
\* oracle alone: the saved tests carry no expected output and no validator
\* is given.
GoodInit ==
    /\ options \in {o \in OptionSet : isOptionValid(o) /\ o.useImplicit}
    /\ argCount = 1
    /\ argMax \in {1, 2}
    /\ pinnedTests \in UNION {[1..k -> PinnedTestSet(argCount, argMax)] :
                                 k \in 0..1}
    /\ mod = [function |-> GoodOutcomes, validators |-> <<>>,
              isVoid |-> FALSE]
    /\ Entered

GoodSpec == GoodInit /\ [][Next]_vars

----------------------------------------------------------------------------
(* Runs on a seed *)

\* The seeds a caller may pass.
Seeds == {1, 2}

\* Runs of a function of one or two arguments of the interval 1..2 on a
\* seed, with up to one saved test.
SeedInit ==
    /\ options \in {[o EXCEPT !.seed = Present(seed)] :
                       o \in {v \in OptionSet : /\ isOptionValid(v)
                                                /\ v.useImplicit
                                                /\ ~v.onlyFailures},
                       seed \in Seeds}
    /\ argCount \in 1..2
    /\ argMax = 2
    /\ pinnedTests \in UNION {[1..k -> PinnedTestSet(argCount, argMax)] :
                                 k \in 0..1}
    /\ mod = [function |-> Outcomes, validators |-> <<>>, isVoid |-> FALSE]
    /\ Entered

SeedSpec == SeedInit /\ [][Next]_vars

----------------------------------------------------------------------------
(* Runs on any options *)

\* The values of a limit and of a timeout that a caller may pass, valid or
\* not.
Limits == {-1, 0, 1}
Timeouts == {-1, 1}

\* Short runs of a one-argument function on options whose numeric fields
\* may be negative.
OptionsInit ==
    /\ options \in [maxTests : Limits, maxDupeInputs : Limits,
                    maxFailures : Limits, suiteTimeout : Timeouts,
                    fnTimeout : Timeouts, onlyFailures : {FALSE},
                    useImplicit : {TRUE}, useHuman : {TRUE},
                    useProperty : {FALSE}, outputFile : {FALSE},
                    seed : {Absent}]
    /\ argCount = 1
    /\ argMax = 1
    /\ pinnedTests \in UNION {[1..k -> PinnedTestSet(argCount, argMax)] :
                                 k \in 0..1}
    /\ mod = [function |-> Outcomes, validators |-> <<>>, isVoid |-> FALSE]
    /\ Entered

OptionsSpec == OptionsInit /\ [][Next]_vars

----------------------------------------------------------------------------
(* Functions studied on their own *)

\* No run of fuzz() is under way: a function of the module is called on an
\* argument, and the locals of fuzz() keep to their initial values.
Standalone ==
    /\ options = [maxTests |-> 0, maxDupeInputs |-> 0, maxFailures |-> 0,
                  suiteTimeout |-> 0, fnTimeout |-> 1, onlyFailures |-> FALSE,
                  useImplicit |-> TRUE, useHuman |-> TRUE,
                  useProperty |-> TRUE, outputFile |-> FALSE,
                  seed |-> Absent]
    /\ argCount = 0
    /\ argMax = 1
    /\ pinnedTests = <<>>
    /\ pinned0 = <<>>
    /\ mod = [function |-> Outcomes, validators |-> <<>>, isVoid |-> FALSE]
    /\ pc = "call"
    /\ ret = <<>>
    /\ EnteredLoopState
    /\ NoPanel
    /\ NoRun

\* The verdicts an oracle leaves in a result: none, passed, failed.
Verdicts == {Absent, Present(TRUE), Present(FALSE)}

\* The results categorizeResult may be called on.
CategorizeArgs ==
    {[InitialResult EXCEPT !.exception = (kind = "threw"),
                           !.timeout = (kind = "timeout"),
                           !.validatorException = validatorException,
                           !.passedImplicit = implicit,
                           !.passedHuman = human,
                           !.passedValidator = property] :
        kind \in {"returned", "threw", "timeout"},
        validatorException \in BOOLEAN, implicit \in BOOLEAN,
        human \in Verdicts, property \in Verdicts}

CategorizeInit == arg \in CategorizeArgs /\ Standalone

\* categorizeResult(arg, env) is called and returns.
Categorize ==
    /\ pc = "call"
    /\ ret' = Present(categorizeResult(arg))
    /\ pc' = "return"
    /\ UNCHANGED <<options, argCount, argMax, pinnedTests, result, results,
                   savedCount, currentDupeCount, totalDupeCount,
                   inputsGenerated, failureCount, allInputs, clock, calls,
                   pinned0, taken, mod, arg, prng, uiVars>>

CategorizeSpec == CategorizeInit /\ [][Categorize]_vars

\* The values a call may have returned, and the values an expected output
\* may hold: the expected outputs are read from JSON5 text, in which
\* undefined occurs only as a value property that is missing.
ActualValues ==
    {GoodValue, UndefinedValue, Scalar("null", 0), Scalar("NaN", 0),
     Container("array", <<>>), Container("array", <<GoodValue>>),
     Container("array", <<UndefinedValue>>),
     Container("array", <<Scalar("null", 0)>>),
     Container("object", <<GoodValue>>),
     Container("object", <<UndefinedValue>>)}
ExpectedValues ==
    {GoodValue, UndefinedValue, Scalar("null", 0), Scalar("NaN", 0),
     Container("array", <<>>), Container("array", <<GoodValue>>),
     Container("array", <<Scalar("null", 0)>>),
     Container("object", <<GoodValue>>)}

\* The results and expected outputs actualEqualsExpectedOutput is called
\* on: a call that returned a value, threw or timed out, against no
\* element, a value, the timeout mark or the exception mark.
EqualsArgs ==
    {[result |-> [timeout |-> timeout, exception |-> exception,
                  output |-> output],
      expectedOutput |-> expectedOutput] :
        timeout \in BOOLEAN, exception \in BOOLEAN,
        output \in {<<>>} \cup {<<v>> : v \in ActualValues},
        expectedOutput \in
            {<<>>, <<IoElement(UndefinedValue, Present(TRUE), Absent)>>,
             <<IoElement(UndefinedValue, Absent, Present(TRUE))>>}
              \cup {<<OutputElement(v)>> : v \in ExpectedValues}}

EqualsInit ==
    /\ arg \in {a \in EqualsArgs :
                  /\ ~(a.result.timeout /\ a.result.exception)
                  /\ (a.result.output = <<>>)
                       = (a.result.timeout \/ a.result.exception)}
    /\ Standalone

\* actualEqualsExpectedOutput(result, expectedOutput) is called and
\* returns.
Equals ==
    /\ pc = "call"
    /\ ret' = Present(actualEqualsExpectedOutput(arg.result,
                                                 arg.expectedOutput))
    /\ pc' = "return"
    /\ UNCHANGED <<options, argCount, argMax, pinnedTests, result, results,
                   savedCount, currentDupeCount, totalDupeCount,
                   inputsGenerated, failureCount, allInputs, clock, calls,
                   pinned0, taken, mod, arg, prng, uiVars>>

EqualsSpec == EqualsInit /\ [][Equals]_vars

\* The values implicitOracle is called on: the scalars, the arrays and
\* objects of up to MaxWidth scalars, an array or object around one of
\* these (twice over), and the arrays and objects of up to MaxWidth of a
\* few nested values.
Leaves ==
    {Scalar("number", 1), Scalar("NaN", 0), Scalar("Infinity", 0),
     Scalar("-Infinity", 0), Scalar("null", 0), Scalar("undefined", 0),
     Scalar("string", 0), Scalar("boolean", 1)}

Containers(elements, width) ==
    {Container(t, items) :
        t \in {"array", "object"},
        items \in UNION {[1..k -> elements] : k \in 0..width}}

FewNested ==
    {Scalar("number", 1), Container("array", <<>>),
     Container("array", <<Scalar("number", 1)>>),
     Container("array", <<Scalar("NaN", 0)>>),
     Container("object", <<Scalar("undefined", 0)>>),
     Container("object", <<Scalar("string", 0)>>)}

ImplicitArgs ==
    LET nested1 == Containers(Leaves, MaxWidth)
        nested2 == Containers(Leaves \cup nested1, 1)
        nested3 == Containers(nested2, 1)
    IN  Leaves \cup nested1 \cup nested2 \cup nested3
          \cup Containers(FewNested, MaxWidth)

ImplicitInit == arg \in ImplicitArgs /\ Standalone

\* implicitOracle(arg) is called and returns.
ApplyImplicitOracle ==
    /\ pc = "call"
    /\ ret' = Present(implicitOracle(arg))
    /\ pc' = "return"
    /\ UNCHANGED <<options, argCount, argMax, pinnedTests, result, results,
                   savedCount, currentDupeCount, totalDupeCount,
                   inputsGenerated, failureCount, allInputs, clock, calls,
                   pinned0, taken, mod, arg, prng, uiVars>>

ImplicitSpec == ImplicitInit /\ [][ApplyImplicitOracle]_vars

----------------------------------------------------------------------------
(* The stop conditions as the documentation of fuzz() lists them *)

TimeIsUp == clock >= options.suiteTimeout
TestsAreDone == inputsGenerated - totalDupeCount >= options.maxTests
FailuresAreDone ==
    options.maxFailures # 0 /\ failureCount >= options.maxFailures
DupesAreDone == currentDupeCount >= options.maxDupeInputs

----------------------------------------------------------------------------
(* C1 *)

----------------------------------------------------------------------------
(* C2 *)

\* C2: the loop terminates; once the pinned pool is drained, an iteration
\* on a generated input either raises inputsGenerated - totalDupeCount above
\* its value at the iteration's start or raises currentDupeCount.
C2_LoopTerminates ==
    /\ [][pc = "dedup" /\ taken = 0 =>
            \/ inputsGenerated' - totalDupeCount'
                  > (inputsGenerated - 1) - totalDupeCount
            \/ currentDupeCount' > currentDupeCount]_vars
    /\ <>(pc = "done")

\* A run with pinned tests that stopped on MAXDUPES or MAXTESTS before the
\* suite timeout expired, after generated inputs and a duplicate.
C2_Witness ==
    /\ pc = "done"
    /\ ~TimeIsUp
    /\ pinned0 # <<>>
    /\ inputsGenerated > 0
    /\ totalDupeCount > 0
    /\ results.stopReason \in {"MAXTESTS", "MAXDUPES"}

----------------------------------------------------------------------------
(* Reading the history *)

\* The hashes of the inputs passed to the function under test so far.
CalledHashes == {JSON5stringify(calls[i].input) : i \in 1..Len(calls)}

\* No two calls were made with the same input (by its hash).
NoInputCalledTwice ==
    \A i, j \in 1..Len(calls) :
        i # j => JSON5stringify(calls[i].input) # JSON5stringify(calls[j].input)

\* The number of calls made with a generated input.
RECURSIVE GeneratedCalls(_)
GeneratedCalls(cs) ==
    IF cs = <<>> THEN 0
    ELSE (IF Head(cs).taken = 0 THEN 1 ELSE 0) + GeneratedCalls(Tail(cs))

\* The inputs of the caller's pinned tests differ pairwise.
PinnedInputsDistinct ==
    \A a, b \in 1..Len(pinned0) :
        a # b => JSON5stringify(pinned0[a].input)
                   # JSON5stringify(pinned0[b].input)

----------------------------------------------------------------------------
(* C3 *)

\* C3: a function with an argument and fewer distinct inputs than maxTests,
\* run without pinned tests, with maxFailures = 0 and maxDupeInputs >= 1,
\* stops with MAXDUPES unless the suite timeout is reached, never with
\* MAXTESTS, and no input is executed twice.
C3_SmallInputSpace ==
    (/\ argCount >= 1
     /\ Cardinality(InputSpace(argCount, argMax)) < options.maxTests
     /\ pinned0 = <<>>
     /\ options.maxFailures = 0
     /\ options.maxDupeInputs >= 1)
    => /\ NoInputCalledTwice
       /\ pc = "done" =>
             /\ results.stopReason # "MAXTESTS"
             /\ ~TimeIsUp => results.stopReason = "MAXDUPES"

\* Such a run, stopped by MAXDUPES with every input of the space executed.
C3_Witness ==
    /\ argCount >= 1
    /\ Cardinality(InputSpace(argCount, argMax)) < options.maxTests
    /\ pinned0 = <<>>
    /\ options.maxFailures = 0
    /\ options.maxDupeInputs >= 1
    /\ pc = "done"
    /\ results.stopReason = "MAXDUPES"
    /\ Len(calls) = Cardinality(InputSpace(argCount, argMax))

----------------------------------------------------------------------------
(* C4 *)

\* C4: for pinned tests with pairwise distinct inputs, the results of the
\* pinned tests appear in results in the order of the pinnedTests list.
C4_PinnedInInsertionOrder ==
    PinnedInputsDistinct =>
        \A a, b \in 1..Len(pinned0) :
            \A i, j \in 1..Len(results.results) :
                (/\ a < b
                 /\ results.results[i].input = pinned0[a].input
                 /\ results.results[j].input = pinned0[b].input)
                => i < j

----------------------------------------------------------------------------
(* C5 *)

\* C5: whatever the pinned list holds, the number of generated inputs that
\* are executed never exceeds maxTests.
C5_GeneratedWithinMaxTests == GeneratedCalls(calls) <= options.maxTests

----------------------------------------------------------------------------
(* C6 *)

\* C6: every pinned test whose input differs from the other pinned inputs
\* has been executed when the run stops, unless the suite timeout stopped it.
C6_UniquePinnedExecuted ==
    (pc = "done" /\ results.stopReason # "MAXTIME") =>
        \A a \in 1..Len(pinned0) :
            (\A b \in 1..Len(pinned0) :
                b # a => JSON5stringify(pinned0[b].input)
                           # JSON5stringify(pinned0[a].input))
            => \E i \in 1..Len(calls) : calls[i].taken = a

----------------------------------------------------------------------------
(* C7 *)

\* C7: for a function with at least one argument no input is passed to the
\* function under test twice in a run, and results holds no two entries
\* with the same input.
C7_NoDuplicateExecuted ==
    argCount >= 1 =>
        /\ NoInputCalledTwice
        /\ \A i, j \in 1..Len(results.results) :
              i # j => JSON5stringify(results.results[i].input)
                         # JSON5stringify(results.results[j].input)

\* A run that executed a pinned and a generated input and skipped a
\* duplicate.
C7_Witness ==
    /\ argCount >= 1
    /\ totalDupeCount > 0
    /\ \E i, j \in 1..Len(calls) : calls[i].taken # 0 /\ calls[j].taken = 0
    /\ Len(results.results) >= 2

----------------------------------------------------------------------------
(* C8 *)

\* C8: of two pinned tests with identical input only the first of the list
\* is executed, and only it is counted in inputsSaved.
C8_FirstOfIdenticalPinned ==
    (/\ pc = "done"
     /\ Len(pinned0) = 2
     /\ JSON5stringify(pinned0[1].input) = JSON5stringify(pinned0[2].input)
     /\ pinnedTests = <<>>)
    => /\ \A i \in 1..Len(calls) : calls[i].taken # 2
       /\ \E i \in 1..Len(calls) : calls[i].taken = 1
       /\ results.inputsSaved = 1

----------------------------------------------------------------------------
(* C9 *)

\* Whether the input of the current iteration was the input of an earlier
\* iteration of this run.
SeenBefore == JSON5stringify(result.input) \in CalledHashes

\* What an iteration does with its input, by whether it was seen before.
DupeAccounting ==
    IF SeenBefore
    THEN /\ currentDupeCount' = currentDupeCount + 1
         /\ totalDupeCount' = totalDupeCount + 1
         /\ calls' = calls
    ELSE /\ currentDupeCount' = 0
         /\ totalDupeCount' = totalDupeCount
         /\ Len(calls') = Len(calls) + 1

\* C9 as stated: in every iteration whose input was already seen both
\* duplicate counters go up by one and the function is not invoked; in every
\* other iteration currentDupeCount is reset and totalDupeCount is unchanged.
C9_DupeAccountingAnyFunction == [][pc = "dedup" => DupeAccounting]_vars

\* C9 (amended): the same, for a function with at least one argument.
C9_DupeAccounting ==
    [][pc = "dedup" /\ argCount >= 1 => DupeAccounting]_vars

\* Two duplicates in a row were skipped, then a new input was executed.
C9_Witness ==
    /\ argCount >= 1
    /\ totalDupeCount >= 2
    /\ currentDupeCount = 0
    /\ pc = "check"
    /\ calls # <<>>
    /\ JSON5stringify(result.input) = JSON5stringify(calls[Len(calls)].input)

----------------------------------------------------------------------------
(* C10 *)

\* C10: for a function without arguments no iteration is a duplicate:
\* totalDupeCount stays 0, every iteration invokes the function, and with
\* maxDupeInputs >= 1 the run never stops with MAXDUPES.
C10_ZeroArgsNeverDeduplicated ==
    argCount = 0 =>
        /\ totalDupeCount = 0
        /\ currentDupeCount = 0
        /\ pc # "dedup" => Len(calls) = savedCount + inputsGenerated
        /\ (pc = "done" /\ options.maxDupeInputs >= 1)
              => results.stopReason # "MAXDUPES"

\* A function without arguments was called for two pinned tests and for a
\* generated input, all with the same (empty) input.
C10_Witness ==
    /\ argCount = 0
    /\ options.maxDupeInputs >= 1
    /\ pc = "done"
    /\ Len(calls) >= 3
    /\ Len(pinned0) = 2

----------------------------------------------------------------------------
(* C11 *)

\* The category by the kind of outcome of the call.
ByOutcome(r) ==
    IF r.exception THEN "exception"
    ELSE IF r.timeout THEN "timeout"
    ELSE "badValue"

\* The decision table of the categories, by the human verdict, the property
\* verdict and the implicit verdict.
DecisionTable(r) ==
    CASE r.passedHuman = Present(TRUE) /\ r.passedValidator = Present(FALSE)
           -> "disagree"
      [] r.passedHuman = Present(TRUE) /\ r.passedValidator # Present(FALSE)
           -> "ok"
      [] r.passedHuman = Present(FALSE) /\ r.passedValidator = Present(TRUE)
           -> "disagree"
      [] r.passedHuman = Present(FALSE) /\ r.passedValidator # Present(TRUE)
           -> ByOutcome(r)
      [] r.passedHuman = Absent /\ r.passedValidator = Present(TRUE)
           -> "ok"
      [] r.passedHuman = Absent /\ r.passedValidator = Present(FALSE)
           -> "badValue"
      [] r.passedHuman = Absent /\ r.passedValidator = Absent
           -> IF r.passedImplicit THEN "ok" ELSE ByOutcome(r)

\* C11: on a result without a validator exception, whatever the human
\* verdict, the property verdict, the implicit verdict and the kind of
\* outcome, categorizeResult returns the category of the decision table.
C11_DecisionTable ==
    pc = "return" /\ ~arg.validatorException
        => ret = Present(DecisionTable(arg))

\* categorizeResult returned "timeout" for a call that timed out, failed
\* the human oracle and had no property verdict.
C11_Witness ==
    /\ pc = "return"
    /\ ~arg.validatorException
    /\ arg.timeout
    /\ arg.passedHuman = Present(FALSE)
    /\ arg.passedValidator = Absent
    /\ ret = Present("timeout")

----------------------------------------------------------------------------
(* C12 *)

\* The step is an iteration of the loop that called the function and stored
\* its result (in result' and at the end of results'.results).
StoresResult ==
    /\ pc = "dedup"
    /\ pc' = "check"
    /\ Len(calls') = Len(calls) + 1

----------------------------------------------------------------------------
(* C13 *)

\* Whether a validator threw in the i-th call.
ValidatorThrew(i) ==
    \E j \in 1..Len(calls[i].validators) :
        calls[i].validators[j].kind = "threw"

\* C13: the result of a test in which a validator threw is categorized
\* failure and keeps its validatorException flag, whatever the implicit and
\* human verdicts are and whatever the other validators, earlier or later,
\* returned.  (Every result is stored in these runs: the i-th result is that
\* of the i-th call.)
C13_ValidatorExceptionIsFailure ==
    \A i \in 1..Len(results.results) :
        ValidatorThrew(i) =>
            /\ results.results[i].validatorException
            /\ results.results[i].category = "failure"

\* A test passed the human oracle, its first validator threw and its second
\* returned true: it is stored as a failure.
C13_Witness ==
    /\ Len(results.results) = 1
    /\ Len(calls[1].validators) = 2
    /\ calls[1].validators[1].kind = "threw"
    /\ calls[1].validators[2] = Returned(Scalar("boolean", 1))
    /\ results.results[1].passedHuman = Present(TRUE)
    /\ results.results[1].passedImplicit
    /\ results.results[1].category = "failure"

----------------------------------------------------------------------------
(* C14 *)

\* The verdicts the validators of the i-th call returned, in their order.
ReturnedVerdicts(i) ==
    [j \in 1..Len(calls[i].validators) |->
        Present(calls[i].validators[j].value.n = 1)]

\* C14: when the property oracle ran on a test (useProperty set, at least
\* one validator) and no validator threw, passedValidators holds one entry
\* per validator, in the order of env.validators, and passedValidator is
\* true exactly if every validator returned true.
C14_OneVerdictPerValidator ==
    \A i \in 1..Len(results.results) :
        options.useProperty /\ Len(mod.validators) > 0 /\ ~ValidatorThrew(i)
        => /\ Len(calls[i].validators) = Len(mod.validators)
           /\ results.results[i].passedValidators
                 = Present(ReturnedVerdicts(i))
           /\ results.results[i].passedValidator
                 = Present(\A j \in 1..Len(calls[i].validators) :
                              calls[i].validators[j]
                                = Returned(Scalar("boolean", 1)))

\* Two validators ran, the first returned true and the second false.
C14_Witness ==
    /\ Len(results.results) = 1
    /\ options.useProperty
    /\ calls[1].validators
          = <<Returned(Scalar("boolean", 1)), Returned(Scalar("boolean", 0))>>
    /\ results.results[1].passedValidators
          = Present(<<Present(TRUE), Present(FALSE)>>)
    /\ results.results[1].passedValidator = Present(FALSE)

----------------------------------------------------------------------------
(* C15 *)

\* The step is an iteration of the loop that called the function under test.
CallsFunction ==
    pc = "dedup" /\ Len(calls') = Len(calls) + 1

\* C15: whatever the function under test does in a call (it returns, it
\* throws any value, an Error or not, or it overruns fnTimeout), the catch
\* block does not raise out of fuzz(), and a call that did not return leaves
\* a result with exception or timeout set before the loop proceeds.
C15_CallNeverAbortsFuzz ==
    [][CallsFunction =>
         /\ pc' # "raised:catch"
         /\ pc' = "check" /\ calls'[Len(calls')].behaviour.kind # "returned"
              => result'.exception \/ result'.timeout]_vars

----------------------------------------------------------------------------
(* C16 *)

\* C16: an iteration in which a validator overruns fnTimeout recovers from
\* it: fuzz() does not raise and the loop proceeds.
C16_ValidatorTimeoutRecovered ==
    [][CallsFunction
         /\ (\E j \in 1..Len(calls'[Len(calls')].validators) :
                calls'[Len(calls')].validators[j].kind = "timeout")
       => pc' = "check"]_vars

----------------------------------------------------------------------------
(* C18 *)

\* C18: once the loop has stopped, fuzz() returns the results to its caller
\* whether or not the output file could be written.
C18_ResultsDespiteWriteFailure ==
    [][pc = "check" /\ _checkStopCondition # "undefined" => pc' = "done"]_vars

----------------------------------------------------------------------------
(* C19 *)

\* C19: the result of a call that overran fnTimeout has timeout set and
\* exception not set, and the result of a call in which the function threw,
\* whatever the thrown object carries, has exception set and timeout not
\* set.  (Every result is stored in these runs: the i-th result is that of
\* the i-th call.)
C19_TimeoutToldFromException ==
    \A i \in 1..Len(results.results) :
        /\ calls[i].behaviour.kind = "timeout"
             => results.results[i].timeout /\ ~results.results[i].exception
        /\ calls[i].behaviour.kind = "threw"
             => results.results[i].exception /\ ~results.results[i].timeout

----------------------------------------------------------------------------
(* C17 *)

\* Whether a numeric limit of the options is negative.
SomeLimitNegative ==
    \/ options.maxTests < 0
    \/ options.maxDupeInputs < 0
    \/ options.maxFailures < 0
    \/ options.suiteTimeout < 0
    \/ options.fnTimeout < 0

\* C17: on options with a negative numeric limit (maxTests, maxDupeInputs,
\* maxFailures, suiteTimeout or fnTimeout) fuzz() raises before it generates
\* an input or calls the function: it never enters the loop and produces no
\* result.
C17_NegativeLimitRejected ==
    SomeLimitNegative =>
        /\ pc \in {"start", "raised:options"}
        /\ inputsGenerated = 0
        /\ calls = <<>>
        /\ results.stopReason = "CRASH"

----------------------------------------------------------------------------
(* C20 *)

\* Whether a value is, or holds at any depth, null, undefined, NaN or an
\* infinity.
RECURSIVE HoldsDisallowed(_)
HoldsDisallowed(x) ==
    \/ x.t \in {"null", "undefined", "NaN", "Infinity", "-Infinity"}
    \/ \E i \in 1..Len(x.items) : HoldsDisallowed(x.items[i])

\* C20: on every value built from numbers, strings, booleans, null,
\* undefined, arrays and objects, implicitOracle returns false exactly if
\* the value is or holds at any depth null, undefined, NaN or an infinity,
\* and true otherwise (so on empty arrays and objects).
C20_ImplicitOracle ==
    pc = "return" => ret = Present(~HoldsDisallowed(arg))

\* implicitOracle returned false on an object that holds an array of an
\* array of NaN.
C20_Witness ==
    /\ pc = "return"
    /\ arg = Container("object",
                <<Container("array",
                    <<Container("array", <<Scalar("NaN", 0)>>)>>)>>)
    /\ ret = Present(FALSE)

\* C21: with the implicit oracle in use, a test whose call threw or timed
\* out fails it; a test of a void function passes it exactly if the call
\* returned undefined; a test of any other function passes it exactly if
\* implicitOracle accepts the value returned.
C21_ImplicitVerdict ==
    [][CallsFunction /\ pc' = "check" /\ options.useImplicit
       => LET behaviour == calls'[Len(calls')].behaviour
              wrapped == functionTimeout(behaviour, options.fnTimeout)
          IN  result'.passedImplicit =
                  IF wrapped.kind # "returned" THEN FALSE
                  ELSE IF mod.isVoid THEN wrapped.value = UndefinedValue
                  ELSE implicitOracle(wrapped.value)]_vars

C21_Witness ==
    /\ pc = "check" /\ options.useImplicit /\ mod.isVoid
    /\ result.output = <<UndefinedValue>>
    /\ result.passedImplicit

\* Whether the expected output carries a mark, and whether it lists the
\* values of the actual output.
Marked(expectedOutput, mark) ==
    Len(expectedOutput) > 0 /\ expectedOutput[1][mark] = Present(TRUE)
SameValues(output, expectedOutput) ==
    /\ Len(output) = Len(expectedOutput)
    /\ \A i \in 1..Len(output) :
          /\ expectedOutput[i].isTimeout = Absent
          /\ expectedOutput[i].isException = Absent
          /\ expectedOutput[i].value = output[i]

\* C22: the human oracle passes a test exactly if the call timed out and
\* the expected output is marked isTimeout, or it threw and the expected
\* output is marked isException, or it returned and the actual output
\* equals the expected output.
C22_HumanVerdict ==
    pc = "return"
    => ret = Present(
          \/ arg.result.timeout /\ Marked(arg.expectedOutput, "isTimeout")
          \/ arg.result.exception
                /\ Marked(arg.expectedOutput, "isException")
          \/ /\ ~arg.result.timeout /\ ~arg.result.exception
             /\ SameValues(arg.result.output, arg.expectedOutput))

\* The test that a step runs to its end, and the results that failed.
RunsTest == CallsFunction /\ pc' = "check"
Failed(list) == {i \in 1..Len(list) : list[i].category # "ok"}

\* C23: the result of a test is appended to results.results exactly if
\* onlyFailures is false or its category is not ok, and nothing else
\* changes the list.
C23_StoredIffWanted ==
    [][/\ RunsTest =>
            results'.results =
                IF ~options.onlyFailures \/ result'.category # "ok"
                THEN Append(results.results, result')
                ELSE results.results
       /\ ~RunsTest => results'.results = results.results]_vars

\* With onlyFailures set a test passed and left the list empty.
C23_Witness ==
    /\ options.onlyFailures /\ pc = "check" /\ Len(calls) = 1
    /\ result.category = "ok"
    /\ results.results = <<>>

\* C24: failureCount grows by one with every test whose category is not
\* ok and with nothing else; with maxFailures = N > 0 no more than N
\* results that are not ok are produced; with maxFailures = 0 the run never
\* stops for MAXFAILURES.
C24_FailureCount ==
    [][/\ RunsTest =>
            failureCount' =
                IF result'.category # "ok" THEN failureCount + 1
                ELSE failureCount
       /\ ~RunsTest => failureCount' = failureCount
       /\ options.maxFailures > 0 =>
              Cardinality(Failed(results'.results)) <= options.maxFailures
       /\ options.maxFailures = 0 =>
              results'.stopReason # "MAXFAILURES"]_vars

\* A run with maxFailures = 1 stopped for it after one failing test that
\* followed a passing one.
C24_Witness ==
    /\ pc = "done" /\ results.stopReason = "MAXFAILURES"
    /\ options.maxFailures = 1 /\ failureCount = 1
    /\ Len(calls) = 2
    /\ Cardinality(Failed(results.results)) = 1

\* The k-th input that the generators of n arguments of the interval 1..hi
\* build on a seed.
GeneratedInput(seed, k, n, hi) ==
    [i \in 1..n |-> gen(seedrandom(seed, (k - 1) * n + i), hi)]

\* C25: on a seed, the k-th generated input of a run is fixed by the seed,
\* the argument definitions and k: it depends neither on the saved tests
\* passed nor on the outcomes of the tests before it, so that two runs on
\* the same seed, options and arguments draw the same sequence of inputs.
C25_SeedFixesInputs ==
    [][pc = "check" /\ pc' = "dedup" /\ taken' = 0
       => result'.input = GeneratedInput(options.seed[1], inputsGenerated',
                                         argCount, argMax)]_vars

\* The third input is generated after a saved test, a duplicate and a
\* call that overran.
C25_Witness ==
    /\ pc = "dedup" /\ taken = 0 /\ inputsGenerated = 3
    /\ pinned0 # <<>>
    /\ totalDupeCount > 0
    /\ \E i \in 1..Len(calls) : calls[i].behaviour = Overran

\* C26: if the function under test is not void, always returns, and
\* returns values without null, undefined, NaN or an infinity, and the
\* implicit oracle alone judges, then every result has the category ok,
\* failureCount stays 0 and the run does not stop for MAXFAILURES.
C26_GoodFunctionPasses ==
    /\ result.category = "ok"
    /\ \A i \in 1..Len(results.results) :
          results.results[i].category = "ok"
    /\ failureCount = 0
    /\ results.stopReason # "MAXFAILURES"

\* A run with maxFailures = 1 ended after two tests, both stored.
C26_Witness ==
    /\ pc = "done" /\ options.maxFailures = 1
    /\ Len(calls) = 2 /\ Len(results.results) = 2

\* C27: a run is cancelled at the top of the loop only.  A step that calls
\* the function under test ends with the result classified, counted and
\* (unless only failures are wanted and it passed) stored, whether or not
\* a stop condition has come to hold meanwhile; a loop-top check that
\* finds a stop condition ends the loop, and neither generates an input
\* nor calls the function.
C27_CancelledAtLoopTop ==
    [][/\ CallsFunction =>
            /\ pc' = "check"
            /\ result'.category = categorizeResult(result')
            /\ failureCount' = CountFailure(result')
            /\ results' = StoreResult(result')
       /\ pc = "check" /\ _checkStopCondition # "undefined" =>
            /\ pc' \notin {"check", "dedup"}
            /\ calls' = calls
            /\ inputsGenerated' = inputsGenerated]_vars

\* C28: the function under test is passed a copy of the input.  Whatever
\* it writes to its arguments, the input of the test's result and the
\* text recorded for the detection of duplicates are those of the input
\* as generated, or as taken from the saved test.
C28_InputProtected ==
    [][CallsFunction =>
          /\ taken # 0 => result.input = pinned0[taken].input
          /\ allInputs' = allInputs \cup {JSON5stringify(result.input)}
          /\ pc' = "check" =>
                /\ result'.input = result.input
                /\ results'.results[Len(results'.results)].input
                      = result.input]_vars

\* A function that writes to its arguments was called on the input <<1>>,
\* and the result stored holds that input.
C28_Witness ==
    /\ pc = "check" /\ Len(calls) = 1
    /\ calls[1].behaviour.mutates
    /\ result.input = <<1>>
    /\ allInputs = {JSON5stringify(<<1>>)}
    /\ Len(results.results) = 1 /\ results.results[1].input = <<1>>

\* C29: no input is generated while saved tests are left in the pool:
\* inputsGenerated is 0 until the last of them is taken, and every test
\* (and every result) that comes from a saved test precedes every one that
\* comes from a generated input.
C29_PinnedFirst ==
    /\ pinnedTests # <<>> => inputsGenerated = 0
    /\ \A i, j \in 1..Len(calls) :
          i < j /\ calls[i].taken = 0 => calls[j].taken = 0
    /\ \A i, j \in 1..Len(results.results) :
          i < j /\ ~results.results[i].pinned => ~results.results[j].pinned

\* Of two saved tests one was run and one skipped as a duplicate, then a
\* generated input was run.
C29_Witness ==
    /\ Len(pinned0) = 2 /\ pinnedTests = <<>> /\ totalDupeCount = 1
    /\ Len(calls) = 2 /\ Len(results.results) = 2
    /\ calls[1].taken = 2 /\ calls[2].taken = 0
    /\ results.results[1].pinned /\ ~results.results[2].pinned
    /\ inputsGenerated = 1

\* C30: with the property oracle in use, a test that runs to its end has
\* called every validator, also if the call of the function threw or timed
\* out; each validator was handed the input values, the flags exception
\* and timeout, and as out the value the function returned, or the string
\* "timeout or exception" if it did not return.
C30_ValidatorInput ==
    [][RunsTest /\ options.useProperty
       => LET call == calls'[Len(calls')]
              wrapped == functionTimeout(call.behaviour, options.fnTimeout)
          IN  /\ Len(call.validatorIn) = Len(mod.validators)
              /\ \A i \in 1..Len(call.validatorIn) :
                    call.validatorIn[i] =
                        [in |-> result.input,
                         out |-> IF wrapped.kind = "returned"
                                 THEN wrapped.value
                                 ELSE TimeoutOrException,
                         exception |-> result'.exception,
                         timeout |-> result'.timeout]]_vars

\* C31: the elapsedTime recorded for a test that ran to its end is the
\* duration of the call, the time at its end less the time at its start,
\* whether the call returned, timed out or threw.
C31_ElapsedIsDuration ==
    [][RunsTest => result'.elapsedTime = clock' - clock]_vars

\* C32: fuzz() leaves the list of saved tests that the caller passed as it
\* was: when fuzz() returns, the list holds the tests it held at the call.
C32_PinnedListUnchanged ==
    pc = "done" => pinnedTests = pinned0

\* C33: when fuzz() returns, no more results are stored than inputsSaved
\* + inputsGenerated - dupesGenerated, and exactly as many if onlyFailures
\* is false.
C33_AggregateCounts ==
    pc = "done" =>
        LET executed == results.inputsSaved + results.inputsGenerated
                            - results.dupesGenerated
        IN  /\ Len(results.results) <= executed
            /\ ~options.onlyFailures => Len(results.results) = executed

C33_Witness ==
    /\ pc = "done" /\ ~options.onlyFailures
    /\ results.inputsSaved = 2 /\ results.inputsGenerated = 2
    /\ results.dupesGenerated = 2 /\ Len(results.results) = 2

\* C34: fuzz() returns only from a loop-top check that found a stop
\* condition, and the stopReason it returns is the reason that check
\* found: one of MAXTIME, MAXTESTS, MAXFAILURES and MAXDUPES, not the
\* initial CRASH.
C34_StopReasonIsTheCheck ==
    [][pc' = "done" /\ pc # "done"
       => /\ pc = "check"
          /\ results'.stopReason = _checkStopCondition
          /\ results'.stopReason
                \in {"MAXTIME", "MAXTESTS", "MAXFAILURES", "MAXDUPES"}]_vars

\* fuzz() returned for MAXDUPES after a generated input was skipped as the
\* duplicate of a saved test.
C34_Witness ==
    /\ pc = "done" /\ results.stopReason = "MAXDUPES"
    /\ results.inputsSaved = 1 /\ results.dupesGenerated = 1

\* C35: in every stored result exception and timeout are not both true,
\* and output holds one element if neither is true and none otherwise.
C35_OutputIffReturned ==
    \A i \in 1..Len(results.results) :
        LET r == results.results[i]
        IN  /\ ~(r.exception /\ r.timeout)
            /\ Len(r.output) = IF r.exception \/ r.timeout THEN 0 ELSE 1

\* A result of a call that timed out is stored, without output.
C35_Witness ==
    /\ Len(results.results) = 1
    /\ results.results[1].timeout /\ ~results.results[1].exception
    /\ results.results[1].output = <<>>
    /\ calls[1].behaviour = Overran

\* C36: the human oracle judges a test only if useHuman is set and the
\* test was saved with an expected output.  The result of a test on a
\* generated input has pinned = false, no expectedOutput and no
\* passedHuman, and its category is not disagree.
C36_HumanJudgesSavedOnly ==
    [][RunsTest =>
          /\ IsPresent(result'.passedHuman) =
                (options.useHuman /\ taken # 0
                   /\ IsPresent(pinned0[taken].expectedOutput))
          /\ taken = 0 =>
                /\ ~result'.pinned
                /\ result'.expectedOutput = Absent
                /\ result'.passedHuman = Absent
                /\ result'.category # "disagree"]_vars

\* A saved test with an expected output was judged disagree, and a test
\* on a generated input was run after it.
C36_Witness ==
    /\ pc = "check" /\ Len(calls) = 2 /\ Len(results.results) = 2
    /\ calls[1].taken = 1 /\ calls[2].taken = 0
    /\ results.results[1].category = "disagree"
    /\ IsPresent(results.results[1].passedHuman)
    /\ results.results[2].passedHuman = Absent

----------------------------------------------------------------------------
(* The panels of the user interface *)

\* No run of fuzz() is under way and no function is studied on its own.
NoFuzz ==
    /\ options = [maxTests |-> 0, maxDupeInputs |-> 0, maxFailures |-> 0,
                  suiteTimeout |-> 0, fnTimeout |-> 1, onlyFailures |-> FALSE,
                  useImplicit |-> TRUE, useHuman |-> TRUE,
                  useProperty |-> TRUE, outputFile |-> FALSE,
                  seed |-> Absent]
    /\ argCount = 0
    /\ argMax = 1
    /\ pinnedTests = <<>>
    /\ pinned0 = <<>>
    /\ mod = [function |-> Outcomes, validators |-> <<>>, isVoid |-> FALSE]
    /\ pc = "ui"
    /\ arg = <<>>
    /\ ret = <<>>
    /\ EnteredLoopState

\* The constructor of FuzzPanel, called on a new webview panel and an
\* environment of the function with the key: the new instance listens for
\* the disposal of its webview panel and registers itself under its key.
\* An instance is known by its position in panels.
NewFuzzPanel(key) ==
    /\ Len(panels) < MaxPanels
    /\ panels' = Append(panels, [key |-> key, disposed |-> FALSE])
    /\ currentPanels' = [currentPanels EXCEPT ![key] = Len(panels) + 1]

\* FuzzPanel.render(extensionUri, env): the panel registered under the key
\* is revealed, or a webview panel and a FuzzPanel are created.
Render ==
    /\ \E key \in FnRefKeys :
          IF currentPanels[key] # 0
          THEN UNCHANGED panelsVars
          ELSE NewFuzzPanel(key)
    /\ UNCHANGED <<fuzzVars, runVars>>

\* FuzzPanel.revive(panel, extensionUri, state), called by the editor on a
\* webview panel it restores: a FuzzPanel is created for the function of
\* the state; if the state is not of this version or fuzzer.setup throws,
\* the webview panel is disposed of and no FuzzPanel exists for it.
Revive ==
    /\ \E key \in FnRefKeys, revivable \in BOOLEAN :
          IF revivable THEN NewFuzzPanel(key) ELSE UNCHANGED panelsVars
    /\ UNCHANGED <<fuzzVars, runVars>>

\* dispose(), run when the webview panel of an instance is closed: the
\* entry under the key of the instance is deleted.
Dispose ==
    /\ \E i \in 1..Len(panels) :
          /\ ~panels[i].disposed
          /\ panels' = [panels EXCEPT ![i].disposed = TRUE]
          /\ currentPanels' = [currentPanels EXCEPT ![panels[i].key] = 0]
    /\ UNCHANGED <<fuzzVars, runVars>>

PanelInit == NoFuzz /\ NoPanel /\ NoRun
PanelNext == Render \/ Revive \/ Dispose
PanelSpec == PanelInit /\ [][PanelNext]_vars

\* The instances that have not been disposed of.
LivePanels == {i \in 1..Len(panels) : ~panels[i].disposed}

\* C37: at most one live FuzzPanel exists for a function, and every live
\* panel is the one registered under its key in currentPanels, whatever
\* the sequence of render, revive and dispose.
C37_OnePanelPerFunction ==
    /\ \A i, j \in LivePanels : panels[i].key = panels[j].key => i = j
    /\ \A i \in LivePanels : currentPanels[panels[i].key] = i

----------------------------------------------------------------------------
(* The runs a panel starts *)

\* What the run callback may meet: fuzz() returns results and the settings
\* are persisted, fuzz() returns and persisting throws, or fuzz() rejects.
RunOutcomes == {"done", "persist throws", "fuzz rejects"}

\* The results fuzz() may return, told by their stopReason.
RunResults == {"MAXTIME", "MAXTESTS", "MAXFAILURES", "MAXDUPES"}

\* The handler of the message fuzz.start, _doFuzzStartCmd up to its
\* setTimeout: options of the message are applied, the results are
\* cleared, the state is busy and the run callback is scheduled.  No
\* handler runs while a callback waits at its await, whose continuation is
\* a microtask.
FuzzStart ==
    /\ ~awaiting
    /\ timers < MaxTimers
    /\ \E maxTests \in 0..MaxTests, onlyFailures \in BOOLEAN :
          options' = [options EXCEPT !.maxTests = maxTests,
                                     !.onlyFailures = onlyFailures]
    /\ _results' = Absent
    /\ _state' = "busy"
    /\ timers' = timers + 1
    /\ UNCHANGED <<_errorMessage, awaiting, panelsVars>>
    /\ UNCHANGED <<argCount, argMax, pinnedTests, pc, result, results,
                   savedCount, currentDupeCount, totalDupeCount,
                   inputsGenerated, failureCount, allInputs, clock, calls,
                   pinned0, taken, mod, arg, ret, prng>>

\* A run callback is taken from the timers: it calls fuzz() and waits for
\* the promise.
RunCallback ==
    /\ ~awaiting
    /\ timers > 0
    /\ timers' = timers - 1
    /\ awaiting' = TRUE
    /\ UNCHANGED <<_state, _results, _errorMessage, panelsVars, fuzzVars>>

\* The promise settles and the callback goes on: the results are stored
\* and the state is done, or the catch block sets the state error and the
\* message.
RunSettles ==
    /\ awaiting
    /\ awaiting' = FALSE
    /\ \E outcome \in RunOutcomes, stopReason \in RunResults :
          /\ _results' = IF outcome = "fuzz rejects" THEN _results
                         ELSE Present(stopReason)
          /\ _state' = IF outcome = "done" THEN "done" ELSE "error"
          /\ _errorMessage' = IF outcome = "fuzz rejects"
                              THEN Present("rejected")
                              ELSE IF outcome = "persist throws"
                              THEN Present("not persisted")
                              ELSE Absent
    /\ UNCHANGED <<timers, panelsVars, fuzzVars>>

RunInit == NoFuzz /\ NoPanel /\ NoRun
RunNext == FuzzStart \/ RunCallback \/ RunSettles
RunSpec == RunInit /\ [][RunNext]_vars

\* C38: the state of the panel is busy whenever a run is scheduled or in
\* progress, and it is done or error only when no run is pending, in every
\* interleaving of fuzz.start messages and run callbacks.
C38_BusyWhileRunPending ==
    /\ timers > 0 \/ awaiting => _state = "busy"
    /\ _state \in {"done", "error"} => timers = 0 /\ ~awaiting

----------------------------------------------------------------------------
(* The Jest suite of the saved tests *)

\* The Jest test that toString writes for a saved test of a function, if
\* any: none for a test that is not pinned and none for an expected
\* timeout; with an expected exception a test that expects a throw, with
\* an expected value a test that compares with it, and otherwise a test of
\* the implicit oracle.
JestTest(test) ==
    IF ~test.pinned THEN <<>>
    ELSE IF IsPresent(test.expectedOutput)
              /\ Len(test.expectedOutput[1]) > 0
    THEN LET expected == test.expectedOutput[1][1]
         IN  IF expected.isTimeout = Present(TRUE) THEN <<>>
             ELSE IF expected.isException = Present(TRUE)
             THEN <<[input |-> test.input, expect |-> "toThrow"]>>
             ELSE <<[input |-> test.input, expect |-> "toStrictEqual"]>>
    ELSE <<[input |-> test.input, expect |-> "implicitOracle"]>>

\* toString(pinnedTests, module, timeout) for the saved tests of one
\* function: the tests written, in the order of the saved tests (a test
\* is numbered by its position among those written).
RECURSIVE toString(_)
toString(tests) ==
    IF tests = <<>> THEN <<>>
    ELSE JestTest(Head(tests)) \o toString(Tail(tests))

\* The saved tests of a function: an input each, pinned or not, with or
\* without an expected output.
SavedTests ==
    [input : InputSpace(1, 1), pinned : BOOLEAN,
     expectedOutput : ExpectedOutputs]

\* What _putFuzzTestsForThisFn is called on: the saved tests of the
\* panel's function after a pin or unpin, the tests that the json file
\* holds, and whether a Jest file exists.
PutArgs ==
    [testSet : UNION {[1..k -> SavedTests] : k \in 0..MaxPinned},
     jsonFile : {<<>>},
     jestFile : {Absent, Present(<<>>)}]

PutInit == arg \in PutArgs /\ Standalone

\* The tests of a list that are pinned.
Pinned(tests) == {i \in 1..Len(tests) : tests[i].pinned}

\* _putFuzzTestsForThisFn(testSet) is called and returns: the json file is
\* written; if a test is pinned the Jest suite of the tests read back from
\* the json file is written, and otherwise an existing Jest file is
\* removed.  A write or removal that throws is reported and leaves the
\* file as it was.
PutFuzzTestsForThisFn ==
    /\ pc = "call"
    /\ \E jsonWritten \in BOOLEAN, jestWritten \in BOOLEAN :
       \E jsonFile \in {IF jsonWritten THEN arg.testSet ELSE arg.jsonFile} :
          ret' = Present(
              [jsonWritten |-> jsonWritten,
               jestWritten |-> jestWritten,
               jsonFile |-> jsonFile,
               jestFile |->
                   IF ~jestWritten THEN arg.jestFile
                   ELSE IF Pinned(arg.testSet) # {}
                   THEN Present(toString(jsonFile))
                   ELSE Absent])
    /\ pc' = "return"
    /\ UNCHANGED <<options, argCount, argMax, pinnedTests, result, results,
                   savedCount, currentDupeCount, totalDupeCount,
                   inputsGenerated, failureCount, allInputs, clock, calls,
                   pinned0, taken, mod, arg, prng, uiVars>>

PutSpec == PutInit /\ [][PutFuzzTestsForThisFn]_vars

\* C39: after a pin or unpin is persisted, the Jest file exists exactly if
\* a saved test is pinned, and the suite holds one test for every saved
\* test that is pinned, whatever its expected output, and none for the
\* others.
C39_JestSuiteOfPinned ==
    pc = "return" /\ ret[1].jsonWritten /\ ret[1].jestWritten
    => /\ IsPresent(ret[1].jestFile) = (Pinned(arg.testSet) # {})
       /\ IsPresent(ret[1].jestFile) =>
             Len(ret[1].jestFile[1]) = Cardinality(Pinned(arg.testSet))

----------------------------------------------------------------------------
(* The sort setting of a column *)

\* The largest magnitude of a sort setting that is tried.
MaxSetting == 30

\* The numbers getSortSetting is called on: the finite integers up to
\* MaxSetting in magnitude, and the numbers that are not finite integers.
SortSettings ==
    {Scalar("number", n) : n \in -MaxSetting..MaxSetting}
        \cup {Scalar("NaN", 0), Scalar("Infinity", 0),
              Scalar("-Infinity", 0)}

\* Whether a number is truthy: every number but zero and NaN.
Truthy(number) ==
    ~(number = Scalar("number", 0) \/ number = Scalar("NaN", 0))

\* getSortSetting(columnSortSetting): columnSortSetting || null.
getSortSetting(columnSortSetting) ==
    IF Truthy(columnSortSetting) THEN columnSortSetting
    ELSE Scalar("null", 0)

SortInit == arg \in SortSettings /\ Standalone

\* getSortSetting(columnSortSetting) is called and returns.
GetSortSetting ==
    /\ pc = "call"
    /\ ret' = Present(getSortSetting(arg))
    /\ pc' = "return"
    /\ UNCHANGED <<options, argCount, argMax, pinnedTests, result, results,
                   savedCount, currentDupeCount, totalDupeCount,
                   inputsGenerated, failureCount, allInputs, clock, calls,
                   pinned0, taken, mod, arg, prng, uiVars>>

SortSpec == SortInit /\ [][GetSortSetting]_vars

\* C40: getSortSetting returns every finite integer it is called on, and
\* returns null only for a setting that is not an integer.
C40_IntegerReturned ==
    pc = "return"
    => /\ arg.t = "number" => ret[1] = arg
       /\ ret[1] = Scalar("null", 0) => arg.t # "number"

============================================================================
